---- MODULE Spec2Model ----
(***************************************************************************)
(* examples/cortex_agent_integration.py: the ctypes wrapper                *)
(* EasyTierDeviceClient (start / stop / get_network_info) around the       *)
(* easytier_device_client library, and main()'s machine-id persistence.    *)
(* The library itself (the Instance Registry behind cortex_*_web_client)   *)
(* is not part of the example file; it is modelled from its contract.      *)
(***************************************************************************)
EXTENDS Integers, Sequences, FiniteSets, TLC

\* ------------------------------------------------------------------ bounds
NumThreads == 2
MaxTail == 2
UuidLen == 2

Threads == 1..NumThreads

\* The thread that runs main().
MainThread == 1

\* ------------------------------------------------------- optional values
\* Python's None / a C NULL pointer, and a present value.
None == [some |-> FALSE, val |-> <<>>]
Some(v) == [some |-> TRUE, val |-> v]
\* Python truthiness of an Optional[str] / c_char_p: None and "" are falsy.
Truthy(x) == x.some /\ x.val # <<>>

\* ------------------------------------------------------------- sequences
RECURSIVE SeqsOfLen(_, _)
SeqsOfLen(S, n) ==
  IF n = 0 THEN {<<>>}
  ELSE {Append(s, c) : s \in SeqsOfLen(S, n - 1), c \in S}

SeqsUpTo(S, n) == UNION {SeqsOfLen(S, k) : k \in 0..n}

\* str.find(c, from): the least index >= from holding a char of D, or 0.
FindFrom(s, D, from) ==
  LET hits == {i \in from..Len(s) : s[i] \in D}
  IN IF hits = {} THEN 0 ELSE CHOOSE i \in hits : \A j \in hits : i <= j

\* str.lstrip(ch)
RECURSIVE LStrip(_, _)
LStrip(s, ch) ==
  IF s # <<>> /\ Head(s) = ch THEN LStrip(Tail(s), ch) ELSE s

\* str.rstrip(ch)
RECURSIVE RStrip(_, _)
RStrip(s, ch) ==
  IF s # <<>> /\ s[Len(s)] = ch THEN RStrip(SubSeq(s, 1, Len(s) - 1), ch) ELSE s

\* str.strip(ch)
Strip(s, ch) == RStrip(LStrip(s, ch), ch)

\* ------------------------------------------------------------------ URLs
Alpha == {"t", "h", "a", "b"}
SchemeChars == Alpha \cup {"1"}

\* urllib.parse.urlparse(url).path for a scheme outside uses_params:
\* scheme up to the first ':', netloc after "//" up to the first of "/?#",
\* then the fragment and the query are cut off.
UrlPath(u) ==
  LET i == FindFrom(u, {":"}, 1)
      hasScheme == /\ i > 1
                   /\ u[1] \in Alpha
                   /\ \A k \in 1..(i - 1) : u[k] \in SchemeChars
      r1 == IF hasScheme THEN SubSeq(u, i + 1, Len(u)) ELSE u
      hasNetloc == Len(r1) >= 2 /\ r1[1] = "/" /\ r1[2] = "/"
      d == FindFrom(r1, {"/", "?", "#"}, 3)
      r2 == IF ~hasNetloc THEN r1
            ELSE IF d = 0 THEN <<>> ELSE SubSeq(r1, d, Len(r1))
      f == FindFrom(r2, {"#"}, 1)
      r3 == IF f = 0 THEN r2 ELSE SubSeq(r2, 1, f - 1)
      q == FindFrom(r3, {"?"}, 1)
  IN IF q = 0 THEN r3 ELSE SubSeq(r3, 1, q - 1)

\* The name taken as the raw path, slashes kept.
InstanceNameUnstripped(u) == UrlPath(u)

\* start(): self.instance_name = urlparse(config_server_url).path.strip('/')
InstanceNameOf(u) == Strip(UrlPath(u), "/")

\* "scheme://host:port", as in the docstring's "tcp://server.com:11020/org-123"
Base == <<"t", ":", "/", "/", "h", ":", "1">>

\* Organization ids: non-empty, free of URL delimiters.
Orgs == {<<"a">>, <<"b">>}

\* scheme://host:port/org
MkUrl(org) == Base \o <<"/">> \o org

\* The URLs whose path is the organization id o between slashes.
UrlsOfOrg(o) == {MkUrl(o), MkUrl(o) \o <<"/">>, Base \o <<"/", "/">> \o o}

\* The organization id a URL of that form was built from, if it has that form.
OrgOfUrl(u) ==
  IF \E o \in Orgs : u \in UrlsOfOrg(o)
    THEN Some(CHOOSE o \in Orgs : u \in UrlsOfOrg(o))
    ELSE None

\* The config_server_url values a host passes to start().
URLs ==
  {Base \o tl : tl \in SeqsUpTo({"/", "a"}, MaxTail)}
    \cup {MkUrl(o) : o \in Orgs}
    \cup {MkUrl(o) \o <<"/">> : o \in Orgs}
    \cup {MkUrl(<<"a">>) \o <<"?", "b">>}

\* str(uuid.uuid4()): one of the complete UUID strings.
UUIDs == SeqsOfLen({"x", "y"}, UuidLen)

\* A machine id provisioned ahead of the first run.
ProvisionedId == [i \in 1..UuidLen |-> "x"]

\* ------------------------------------------------------------------ state
VARIABLES
  instance_name,  \* EasyTierDeviceClient.instance_name
  th,             \* per calling thread: the call in progress and its locals
  running,        \* the library's Instance Registry: names of live instances
  pre,            \* history: instance_name, sess and running when the latest call was entered
  started,        \* history: names started successfully and not yet stopped
  sess,           \* history: "never", "started" or "stopped"
  stopDone,       \* history: names the client's cortex_stop_web_client calls stopped since their start
  lastOrg,        \* history: the organization id in the URL of the latest successful start()
  mpc,            \* main(): position
  machine_id,     \* main(): the local machine_id
  file,           \* MACHINE_ID_FILE: absent (None) or its contents
  dir,            \* whether /var/lib/cortex_agent exists
  identity        \* history: the machine id provisioned or last generated for the device

clientVars == <<instance_name, th, running, pre, started, sess, stopDone, lastOrg>>
mainVars == <<mpc, machine_id, file, dir, identity>>
vars == <<instance_name, th, running, pre, started, sess, stopDone, lastOrg,
          mpc, machine_id, file, dir, identity>>

\* ------------------------------------------------- CortexNetworkInfo
Keys == {"instance_name", "network_name", "virtual_ipv4", "hostname", "version"}

NullStruct == [k \in Keys |-> None]

\* The structs the library may hand back for instance n: a joined session, an
\* instance whose network is not configured yet, and a struct of NULL fields.
InfoStructs(n) ==
  { [k \in Keys |-> IF k = "instance_name" THEN Some(n) ELSE Some(<<k>>)],
    [k \in Keys |-> CASE k = "instance_name" -> Some(n)
                      [] k \in {"hostname", "version"} -> Some(<<k>>)
                      [] OTHER -> None],
    NullStruct }

NullPtr == [null |-> TRUE, contents |-> NullStruct]
PtrTo(s) == [null |-> FALSE, contents |-> s]

\* ------------------------------------------------- the library's contract
\* The organization id the library takes from the URL path; it names the instance.
LibInstanceName(u) == Strip(UrlPath(u), "/")

\* cortex_start_web_client: DuplicateInstanceError when the name is active,
\* otherwise 0, or a nonzero code for an immediate validation/setup failure.
LibStartStatuses(u) == IF LibInstanceName(u) \in running THEN {-1} ELSE {0, -1}

\* cortex_stop_web_client: NotFoundError when the name is absent, else 0.
LibStopStatus(n) == IF n \in running THEN 0 ELSE -1

\* cortex_get_web_client_network_info: <<status, info pointer>>.
LibInfoResults(n) ==
  IF n \in running
    THEN {<<0, NullPtr>>, <<-1, NullPtr>>} \cup {<<0, PtrTo(s)>> : s \in InfoStructs(n)}
    ELSE {<<-1, NullPtr>>}

\* ------------------------------------------------------------ the wrapper
Idle == [pc |-> "idle", op |-> "none", url |-> <<>>, mid |-> <<>>, arg |-> None,
         status |-> 0, info |-> NullPtr, ret |-> "-", dict |-> <<>>,
         errRead |-> FALSE]

AtRest(t) == th[t].pc \in {"idle", "done"}
Quiescent == \A t \in Threads : AtRest(t)

\* Thread t enters a call with record r; the record of a call that has returned
\* is kept until the next call is entered.
Enter(t, r) ==
  /\ th' = [x \in Threads |-> IF x = t THEN r
                               ELSE IF th[x].pc = "done" THEN Idle ELSE th[x]]
  /\ pre' = [name |-> instance_name, sess |-> sess, running |-> running]

\* A start() that reports success whatever the library said.
StartOkAlways(status) == TRUE

\* start(): if result == 0
StartOk(status) == status = 0

\* A start() that records the name before looking at the library's status.
StartNameEager(status, cur, u) == Some(InstanceNameOf(u))

\* start(), lines 79-83: instance_name is assigned only under result == 0.
StartName(status, cur, u) == IF StartOk(status) THEN Some(InstanceNameOf(u)) ELSE cur

\* start(), lines 69-75: the machine id defaults to a fresh uuid4; the config is built.
start_call(t, u, m) ==
  /\ AtRest(t)
  /\ \E g \in UUIDs :
       Enter(t, [Idle EXCEPT !.op = "start", !.pc = "start_lib", !.url = u,
                             !.mid = IF m.some THEN m.val ELSE g])
  /\ UNCHANGED <<instance_name, running, started, sess, stopDone, lastOrg>>

\* start(), line 77: result = self.lib.cortex_start_web_client(pointer(config))
start_lib(t) ==
  /\ th[t].pc = "start_lib"
  /\ UNCHANGED pre
  /\ \E st \in LibStartStatuses(th[t].url) :
       /\ th' = [th EXCEPT ![t].pc = "start_ret", ![t].status = st]
       /\ running' = IF st = 0 THEN running \cup {LibInstanceName(th[t].url)} ELSE running
       /\ stopDone' = IF st = 0 THEN stopDone \ {LibInstanceName(th[t].url)}
                      ELSE stopDone
  /\ UNCHANGED <<instance_name, started, sess, lastOrg>>

\* start(), lines 79-93
start_ret(t) ==
  /\ th[t].pc = "start_ret"
  /\ UNCHANGED pre
  /\ instance_name' = StartName(th[t].status, instance_name, th[t].url)
  /\ IF StartOk(th[t].status)
       THEN /\ th' = [th EXCEPT ![t].pc = "done", ![t].ret = "True", ![t].mid = <<>>]
            /\ started' = started \cup {InstanceNameOf(th[t].url)}
            /\ sess' = "started"
            /\ lastOrg' = OrgOfUrl(th[t].url)
       ELSE /\ th' = [th EXCEPT ![t].pc = "done", ![t].ret = "False", ![t].mid = <<>>,
                                 ![t].errRead = TRUE]
            /\ UNCHANGED <<started, sess, lastOrg>>
  /\ UNCHANGED <<running, stopDone>>

\* A stop() that forgets the instance whatever the library said.
StopNameAlwaysCleared(status, cur) == None

\* stop(), lines 102-108: instance_name is reset only when the library returned 0.
StopName(status, cur) == IF status = 0 THEN None ELSE cur

\* stop(), lines 97-99: if not self.instance_name: return False
stop_call(t) ==
  /\ AtRest(t)
  /\ Enter(t, IF Truthy(instance_name)
                THEN [Idle EXCEPT !.op = "stop", !.pc = "stop_lib"]
                ELSE [Idle EXCEPT !.op = "stop", !.pc = "done", !.ret = "False"])
  /\ UNCHANGED <<instance_name, running, started, sess, stopDone, lastOrg>>

\* stop(), line 101: self.lib.cortex_stop_web_client(self.instance_name.encode());
\* instance_name is read again here, and None has no encode().
stop_lib(t) ==
  /\ th[t].pc = "stop_lib"
  /\ UNCHANGED pre
  /\ IF instance_name.some
       THEN LET n == instance_name.val
                st == LibStopStatus(n)
            IN /\ th' = [th EXCEPT ![t].pc = "stop_ret", ![t].arg = Some(n),
                                   ![t].status = st]
               /\ running' = running \ {n}
               /\ stopDone' = IF st = 0 THEN stopDone \cup {n} ELSE stopDone
       ELSE /\ th' = [th EXCEPT ![t].pc = "done", ![t].ret = "raise"]
            /\ UNCHANGED <<running, stopDone>>
  /\ UNCHANGED <<instance_name, started, sess, lastOrg>>

\* stop(), lines 102-108
stop_ret(t) ==
  /\ th[t].pc = "stop_ret"
  /\ UNCHANGED pre
  /\ instance_name' = StopName(th[t].status, instance_name)
  /\ IF th[t].status = 0
       THEN /\ th' = [th EXCEPT ![t].pc = "done", ![t].ret = "True"]
            /\ started' = started \ {th[t].arg.val}
            /\ sess' = "stopped"
       ELSE /\ th' = [th EXCEPT ![t].pc = "done", ![t].ret = "False"]
            /\ UNCHANGED <<started, sess>>
  /\ UNCHANGED <<running, stopDone, lastOrg>>

\* A decode that hands a NULL field through as None.
DecodeKeepNull(f) == IF Truthy(f) THEN Some(f.val) ELSE None

\* get_network_info(), lines 124-128: info.x.decode() if info.x else ""
Decode(f) == IF Truthy(f) THEN Some(f.val) ELSE Some(<<>>)

\* A result test that ignores the info pointer.
HasInfoIgnoringPtr(status, ptr) == status = 0

\* get_network_info(), line 121: if result == 0 and info_ptr
HasInfo(status, ptr) == status = 0 /\ ~ptr.null

\* get_network_info(), lines 112-113: if not self.instance_name: return None
get_call(t) ==
  /\ AtRest(t)
  /\ Enter(t, IF Truthy(instance_name)
                THEN [Idle EXCEPT !.op = "get", !.pc = "get_lib"]
                ELSE [Idle EXCEPT !.op = "get", !.pc = "done", !.ret = "None"])
  /\ UNCHANGED <<instance_name, running, started, sess, stopDone, lastOrg>>

\* get_network_info(), lines 115-119: instance_name is read again for the call.
get_lib(t) ==
  /\ th[t].pc = "get_lib"
  /\ UNCHANGED pre
  /\ IF instance_name.some
       THEN \E r \in LibInfoResults(instance_name.val) :
              th' = [th EXCEPT ![t].pc = "get_ret", ![t].arg = instance_name,
                               ![t].status = r[1], ![t].info = r[2]]
       ELSE th' = [th EXCEPT ![t].pc = "done", ![t].ret = "raise"]
  /\ UNCHANGED <<instance_name, running, started, sess, stopDone, lastOrg>>

\* get_network_info(), lines 121-131
get_ret(t) ==
  /\ th[t].pc = "get_ret"
  /\ UNCHANGED pre
  /\ th' = [th EXCEPT ![t] =
              IF HasInfo(th[t].status, th[t].info)
                THEN [@ EXCEPT !.pc = "done", !.ret = "dict",
                               !.dict = [k \in Keys |-> Decode(th[t].info.contents[k])]]
                ELSE [@ EXCEPT !.pc = "done", !.ret = "None"]]
  /\ UNCHANGED <<instance_name, running, started, sess, stopDone, lastOrg>>

\* ---------------------------------------------- a host calling the client
InitClient ==
  /\ instance_name = None
  /\ th = [t \in Threads |-> Idle]
  /\ running = {}
  /\ pre = [name |-> None, sess |-> "never", running |-> {}]
  /\ started = {}
  /\ sess = "never"
  /\ stopDone = {}
  /\ lastOrg = None

\* A fresh device, or one whose identity file was provisioned (one line of text).
InitMain ==
  /\ mpc = "exists"
  /\ machine_id = None
  /\ \E provisioned \in BOOLEAN :
       /\ file = IF provisioned THEN Some(Append(ProvisionedId, "\n")) ELSE None
       /\ dir = provisioned
       /\ identity = IF provisioned THEN Some(ProvisionedId) ELSE None

Init == InitClient /\ InitMain

\* The machine_id arguments of start(): omitted, or a provisioned id.
MachineIdArgs == {None, Some(ProvisionedId)}

\* Calls made one after another, by the host's main thread.
StartCall ==
  \E u \in URLs, m \in MachineIdArgs :
    Quiescent /\ start_call(MainThread, u, m) /\ UNCHANGED mainVars

StopCall == Quiescent /\ stop_call(MainThread) /\ UNCHANGED mainVars

GetCall == Quiescent /\ get_call(MainThread) /\ UNCHANGED mainVars

\* Another caller in the process stops instance n through the process-wide
\* registry (a successful cortex_stop_web_client that is not this client's).
ExternalStop ==
  /\ Quiescent
  /\ \E n \in running :
       /\ running' = running \ {n}
       /\ started' = started \ {n}
  /\ th' = [t \in Threads |-> Idle]
  /\ pre' = [name |-> instance_name, sess |-> sess, running |-> running']
  /\ UNCHANGED <<instance_name, sess, stopDone, lastOrg>>
  /\ UNCHANGED mainVars

\* Calls made from several threads at once.
StartCallC ==
  \E t \in Threads, o \in Orgs :
    start_call(t, MkUrl(o), Some(ProvisionedId)) /\ UNCHANGED mainVars

StopCallC == \E t \in Threads : stop_call(t) /\ UNCHANGED mainVars

GetCallC == \E t \in Threads : get_call(t) /\ UNCHANGED mainVars

StartLib == \E t \in Threads : start_lib(t) /\ UNCHANGED mainVars

StartRet == \E t \in Threads : start_ret(t) /\ UNCHANGED mainVars

StopLib == \E t \in Threads : stop_lib(t) /\ UNCHANGED mainVars

StopRet == \E t \in Threads : stop_ret(t) /\ UNCHANGED mainVars

GetLib == \E t \in Threads : get_lib(t) /\ UNCHANGED mainVars

GetRet == \E t \in Threads : get_ret(t) /\ UNCHANGED mainVars

Steps == StartLib \/ StartRet \/ StopLib \/ StopRet \/ GetLib \/ GetRet

Next == StartCall \/ StopCall \/ GetCall \/ ExternalStop \/ Steps

Spec == Init /\ [][Next]_vars

NextConc == StartCallC \/ StopCallC \/ GetCallC \/ Steps

SpecConc == Init /\ [][NextConc]_vars

\* ------------------------------------------------------------------ main()
Whitespace == {" ", "\n"}

RECURSIVE LStripWs(_)
LStripWs(s) == IF s # <<>> /\ Head(s) \in Whitespace THEN LStripWs(Tail(s)) ELSE s

RECURSIVE RStripWs(_)
RStripWs(s) ==
  IF s # <<>> /\ s[Len(s)] \in Whitespace THEN RStripWs(SubSeq(s, 1, Len(s) - 1)) ELSE s

\* str.strip()
StripWs(s) == RStripWs(LStripWs(s))

\* f"{CONFIG_SERVER_URL}/{ORGANIZATION_ID}"
MainUrl == MkUrl(<<"a">>)

\* if os.path.exists(MACHINE_ID_FILE)
MainExists ==
  /\ mpc = "exists"
  /\ mpc' = IF file.some THEN "read" ELSE "gen"
  /\ UNCHANGED <<machine_id, file, dir, identity>>
  /\ UNCHANGED clientVars

\* machine_id = f.read().strip()
MainRead ==
  /\ mpc = "read"
  /\ machine_id' = Some(StripWs(file.val))
  /\ mpc' = "client"
  /\ UNCHANGED <<file, dir, identity>>
  /\ UNCHANGED clientVars

\* machine_id = str(uuid.uuid4())
MainGen ==
  /\ mpc = "gen"
  /\ \E g \in UUIDs : machine_id' = Some(g) /\ identity' = Some(g)
  /\ mpc' = "makedirs"
  /\ UNCHANGED <<file, dir>>
  /\ UNCHANGED clientVars

\* os.makedirs(os.path.dirname(MACHINE_ID_FILE), exist_ok=True)
MainMakedirs ==
  /\ mpc = "makedirs"
  /\ dir' = TRUE
  /\ mpc' = "open"
  /\ UNCHANGED <<machine_id, file, identity>>
  /\ UNCHANGED clientVars

\* open(MACHINE_ID_FILE, 'w'): the file is created (or truncated) empty.
MainOpen ==
  /\ mpc = "open"
  /\ dir
  /\ file' = Some(<<>>)
  /\ mpc' = "write"
  /\ UNCHANGED <<machine_id, dir, identity>>
  /\ UNCHANGED clientVars

\* f.write(machine_id) and the flush on leaving the with block: the bytes reach
\* the file in one or more writes.
MainWrite ==
  /\ mpc = "write"
  /\ \E k \in (Len(file.val) + 1)..Len(machine_id.val) :
       /\ file' = Some(SubSeq(machine_id.val, 1, k))
       /\ mpc' = IF k = Len(machine_id.val) THEN "client" ELSE "write"
  /\ UNCHANGED <<machine_id, dir, identity>>
  /\ UNCHANGED clientVars

\* client = EasyTierDeviceClient()
MainClient ==
  /\ mpc = "client"
  /\ instance_name' = None
  /\ mpc' = "start"
  /\ UNCHANGED <<machine_id, file, dir, identity>>
  /\ UNCHANGED <<th, running, pre, started, sess, stopDone, lastOrg>>

\* client.start(f"{CONFIG_SERVER_URL}/{ORGANIZATION_ID}", machine_id)
MainStart ==
  /\ mpc = "start"
  /\ start_call(MainThread, MainUrl, machine_id)
  /\ mpc' = "in_start"
  /\ UNCHANGED <<machine_id, file, dir, identity>>

\* if client.start(...): ... else: return 1
MainAfterStart ==
  /\ mpc = "in_start"
  /\ th[MainThread].pc = "done"
  /\ mpc' = IF th[MainThread].ret = "True" THEN "info" ELSE "exit"
  /\ UNCHANGED <<machine_id, file, dir, identity>>
  /\ UNCHANGED clientVars

\* info = client.get_network_info()
MainInfo ==
  /\ mpc = "info"
  /\ get_call(MainThread)
  /\ mpc' = "in_info"
  /\ UNCHANGED <<machine_id, file, dir, identity>>

\* return 0
MainAfterInfo ==
  /\ mpc = "in_info"
  /\ th[MainThread].pc = "done"
  /\ mpc' = "exit"
  /\ UNCHANGED <<machine_id, file, dir, identity>>
  /\ UNCHANGED clientVars

\* A new process: nothing of the old one is left but the file system.
NewProcess ==
  /\ instance_name' = None
  /\ th' = [t \in Threads |-> Idle]
  /\ running' = {}
  /\ pre' = [name |-> None, sess |-> "never", running |-> {}]
  /\ started' = {}
  /\ sess' = "never"
  /\ stopDone' = {}
  /\ lastOrg' = None
  /\ mpc' = "exists"
  /\ machine_id' = None
  /\ UNCHANGED <<file, dir, identity>>

\* The process is killed at any point of main(), and the host is run again.
Crash == mpc # "exit" /\ NewProcess

\* The host is run again after main() returned.
Restart == mpc = "exit" /\ NewProcess

NextMain ==
  \/ MainExists \/ MainRead \/ MainGen \/ MainMakedirs \/ MainOpen \/ MainWrite
  \/ MainClient \/ MainStart \/ StartLib \/ StartRet \/ MainAfterStart
  \/ MainInfo \/ GetLib \/ GetRet \/ MainAfterInfo
  \/ Crash \/ Restart

SpecMain == Init /\ [][NextMain]_vars

\* ------------------------------------------------------------ properties
Returned(t, o) == th[t].pc = "done" /\ th[t].op = o

\* C1: once a start yielding name n has succeeded, no later start yielding n
\* succeeds until a stop for n has succeeded: a start returns True only for a
\* name that is not among those started and not yet stopped.
C1_StartRefusesDuplicate ==
  [][\A t \in Threads :
       (th[t].pc = "start_ret" /\ th'[t].pc = "done" /\ th'[t].ret = "True")
         => InstanceNameOf(th[t].url) \notin started]_vars

C1_Witness ==
  \E t \in Threads :
    /\ Returned(t, "start")
    /\ th[t].ret = "False"
    /\ InstanceNameOf(th[t].url) \in started

\* C2: a stop() entered with no active instance_name returns False without
\* calling cortex_stop_web_client, and whenever stop() has returned False
\* (the library's nonzero return included) instance_name and the set of
\* running instances are what they were when the call was entered.
C2_StopFailureNoSideEffects ==
  \A t \in Threads :
    Returned(t, "stop") =>
      /\ ~Truthy(pre.name) => th[t].ret = "False" /\ ~th[t].arg.some
      /\ th[t].ret = "False" => instance_name = pre.name /\ running = pre.running

C2_Witness ==
  \E t \in Threads :
    /\ Returned(t, "stop")
    /\ th[t].ret = "False"
    /\ th[t].arg.some
    /\ th[t].status # 0

\* C3: start() returns True exactly when cortex_start_web_client returned 0;
\* on a nonzero status it returns False, has read the error-message accessor,
\* and instance_name is what it was when the call was entered.
C3_StartResultMatchesStatus ==
  \A t \in Threads :
    Returned(t, "start") =>
      /\ (th[t].ret = "True") <=> (th[t].status = 0)
      /\ th[t].status # 0 =>
           th[t].ret = "False" /\ th[t].errRead /\ instance_name = pre.name

C3_Witness ==
  \E t \in Threads :
    Returned(t, "start") /\ th[t].status # 0 /\ Truthy(pre.name)

\* C4: get_network_info() returns None when the client never started
\* successfully, when its last successful start was followed by a successful
\* stop, and when the library reports a nonzero status or a null info pointer.
C4_GetInfoNoneWithoutSession ==
  \A t \in Threads :
    (/\ Returned(t, "get")
     /\ \/ pre.sess \in {"never", "stopped"}
        \/ th[t].status # 0
        \/ th[t].info.null)
      => th[t].ret = "None"

C4_Witness ==
  \E t \in Threads :
    Returned(t, "get") /\ th[t].arg.some /\ th[t].status = 0 /\ th[t].info.null

\* C5: the machine identity is persisted atomically: whenever the host starts
\* (after a normal exit or after a crash), the machine-identity file is absent
\* or holds one complete UUID, never an empty or partial value.
C5_PersistedIdentityComplete ==
  (mpc = "exists" /\ file.some) => StripWs(file.val) \in UUIDs

\* C6: the machine identity is stable across restarts: every machine_id handed
\* to cortex_start_web_client, in any run, is the identity generated (or
\* provisioned) for the device.
C6_MachineIdStable ==
  \A t \in Threads :
    (th[t].op = "start" /\ th[t].pc = "start_ret")
      => identity.some /\ th[t].mid = identity.val

\* C7: after a successful start with a URL scheme://host:port/org, instance_name
\* is org, and org is the name every later stop and get_network_info call
\* hands to the library.
C7_InstanceNameIsOrgId ==
  lastOrg.some =>
    /\ (Quiescent /\ sess = "started") => instance_name = lastOrg
    /\ \A t \in Threads :
         (th[t].op \in {"stop", "get"} /\ th[t].arg.some) => th[t].arg = lastOrg

C7_Witness ==
  \E t \in Threads :
    /\ Returned(t, "get")
    /\ th[t].arg = Some(<<"a">>)
    /\ lastOrg = Some(<<"a">>)

\* C8: calls made concurrently on one client behave as some sequential order of
\* them; in particular two stop() calls never both invoke
\* cortex_stop_web_client for the same started instance: it is not invoked for
\* an instance that a stop() of this client has already stopped.
C8_NoDoubleStop ==
  [][\A t \in Threads :
       (th[t].pc = "stop_lib" /\ th'[t].pc = "stop_ret")
         => th'[t].arg.val \notin stopDone]_vars

\* C9: a non-None result of get_network_info() holds exactly the five keys,
\* each mapped to a string (the empty string for a NULL field), and the call
\* changes neither instance_name nor the set of running instances.
C9_GetInfoSnapshotShape ==
  \A t \in Threads :
    Returned(t, "get") =>
      /\ instance_name = pre.name
      /\ running = pre.running
      /\ th[t].ret = "dict" =>
           /\ DOMAIN th[t].dict = Keys
           /\ \A k \in Keys :
                /\ th[t].dict[k].some
                /\ ~th[t].info.contents[k].some => th[t].dict[k].val = <<>>
                /\ th[t].info.contents[k].some =>
                     th[t].dict[k].val = th[t].info.contents[k].val

C9_Witness ==
  \E t \in Threads :
    /\ Returned(t, "get")
    /\ th[t].ret = "dict"
    /\ ~th[t].info.contents["network_name"].some
    /\ th[t].info.contents["hostname"].some

\* C10: between calls, every instance the client started successfully and has
\* not stopped is the one named by a truthy instance_name.
C10_NoOrphanInstance ==
  Quiescent =>
    \A n \in started \cap running :
      Truthy(instance_name) /\ instance_name.val = n

====
